---- MODULE Spec2Model ----
(***************************************************************************)
(* IntelliScan resume analyzer (src/app.py).                               *)
(*                                                                         *)
(* A Python str is a sequence of one-character strings, so that lower(),   *)
(* split(), join() and the `in` substring test are computed as Python      *)
(* computes them.  A percentage is the exact rational num/den of the float *)
(* the code computes.  pdfplumber, python-docx, spaCy and Streamlit are    *)
(* outside the repository: what they return is an input of the model.      *)
(***************************************************************************)
EXTENDS Integers, Sequences, FiniteSets, TLC

VARIABLES
    uploaded_files,     \* st.file_uploader result: a list of uploaded files
    job_description,    \* st.text_area result
    job_role,           \* st.selectbox result
    pc,                 \* position of the script / of the function under test
    idx,                \* position of the for loop in uploaded_files
    resume_text,        \* result of extract_text for the current file
    extracted_skills,   \* result of extract_skills_nlp (the tagger's tokens)
    matched_skills,
    missing_skills,
    skill_match_score,
    job_match_score,
    missing_sections,
    screen,             \* the analyses displayed so far, in display order
    downloads           \* the download buttons offered so far, in order

vars == <<uploaded_files, job_description, job_role, pc, idx, resume_text,
          extracted_skills, matched_skills, missing_skills, skill_match_score,
          job_match_score, missing_sections, screen, downloads>>

-----------------------------------------------------------------------------
(* Bounds of the model *)

MaxFiles == 2           \* uploaded files in one run
MaxResumeLen == 3       \* characters of a resume text given to job_match_percentage
MaxJobLen == 3          \* characters of a job description given to it
MaxPieces == 3          \* text pieces of a resume given to check_resume_format
MaxForeign == 2         \* tokens outside every catalog the tagger may return

-----------------------------------------------------------------------------
(* Python str and list primitives *)

\* None: a value that is no str (its one element is not a character)
None == <<"None">>

\* bool(text): neither None nor the empty string
truthy(text) == text # None /\ text # <<>>

UpperCase == <<"A","B","C","D","E","F","G","H","I","J","K","L","M","N","O","P","Q","R","S","T","U","V","W","X","Y","Z">>
LowerCase == <<"a","b","c","d","e","f","g","h","i","j","k","l","m","n","o","p","q","r","s","t","u","v","w","x","y","z">>

\* the characters str.split() treats as separators, among those of the model
Whitespace == {" ", "\n", "\t"}

lower_char(c) ==
    IF \E i \in DOMAIN UpperCase : UpperCase[i] = c
    THEN LowerCase[CHOOSE i \in DOMAIN UpperCase : UpperCase[i] = c]
    ELSE c

\* str.lower()
lower(s) == [i \in 1..Len(s) |-> lower_char(s[i])]

\* str.split() without arguments: the maximal runs of non-whitespace, in order
RECURSIVE split_scan(_, _, _, _)
split_scan(s, i, word, acc) ==
    IF i > Len(s)
    THEN IF word = <<>> THEN acc ELSE Append(acc, word)
    ELSE IF s[i] \in Whitespace
         THEN split_scan(s, i + 1, <<>>, IF word = <<>> THEN acc ELSE Append(acc, word))
         ELSE split_scan(s, i + 1, Append(word, s[i]), acc)

split(s) == split_scan(s, 1, <<>>, <<>>)

\* set(list)
set(list) == {list[i] : i \in DOMAIN list}

\* sep.join(parts)
RECURSIVE join(_, _)
join(sep, parts) ==
    IF parts = <<>> THEN <<>>
    ELSE IF Len(parts) = 1 THEN parts[1]
    ELSE parts[1] \o sep \o join(sep, Tail(parts))

\* keyword in text
contains(text, keyword) ==
    \E i \in 1..(Len(text) - Len(keyword) + 1) :
        SubSeq(text, i, i + Len(keyword) - 1) = keyword

\* (count / total) * 100, as the exact rational
percentage(count, total) == [num |-> count * 100, den |-> total]

\* the literal 0 of the else branches
zero == [num |-> 0, den |-> 1]

\* f"{score:.2f}": the score in hundredths, rounded half to even
format_2f(score) ==
    LET q == (score.num * 100) \div score.den
        r == (score.num * 100) % score.den
    IN  IF 2 * r > score.den \/ (2 * r = score.den /\ q % 2 = 1) THEN q + 1 ELSE q

-----------------------------------------------------------------------------
(* The skill catalog and the analysis functions *)

Roles == <<"Software Engineer", "Data Scientist", "Marketing", "UI/UX Designer",
           "Cybersecurity Analyst">>

predefined_skills ==
    [r \in set(Roles) |->
        CASE r = "Software Engineer" ->
               { <<"P","y","t","h","o","n">>, <<"J","a","v","a">>, <<"C","+","+">>, <<"M","a","c","h","i","n","e"," ","L","e","a","r","n","i","n","g">>, <<"G","i","t">>, <<"S","Q","L">>,
                 <<"D","o","c","k","e","r">>, <<"K","u","b","e","r","n","e","t","e","s">>, <<"J","a","v","a","S","c","r","i","p","t">>, <<"R","e","a","c","t">>, <<"N","o","d","e",".","j","s">> }
          [] r = "Data Scientist" ->
               { <<"P","a","n","d","a","s">>, <<"N","u","m","P","y">>, <<"D","e","e","p"," ","L","e","a","r","n","i","n","g">>, <<"S","t","a","t","i","s","t","i","c","s">>, <<"P","y","t","h","o","n">>,
                 <<"R">>, <<"T","e","n","s","o","r","F","l","o","w">>, <<"P","y","T","o","r","c","h">>, <<"S","Q","L">>, <<"D","a","t","a"," ","V","i","s","u","a","l","i","z","a","t","i","o","n">> }
          [] r = "Marketing" ->
               { <<"S","E","O">>, <<"G","o","o","g","l","e"," ","A","d","s">>, <<"C","o","n","t","e","n","t"," ","W","r","i","t","i","n","g">>, <<"S","o","c","i","a","l"," ","M","e","d","i","a">>,
                 <<"B","r","a","n","d","i","n","g">>, <<"G","o","o","g","l","e"," ","A","n","a","l","y","t","i","c","s">>, <<"C","o","p","y","w","r","i","t","i","n","g">>,
                 <<"E","m","a","i","l"," ","M","a","r","k","e","t","i","n","g">> }
          [] r = "UI/UX Designer" ->
               { <<"F","i","g","m","a">>, <<"A","d","o","b","e"," ","X","D">>, <<"W","i","r","e","f","r","a","m","i","n","g">>, <<"U","s","e","r"," ","R","e","s","e","a","r","c","h">>,
                 <<"S","k","e","t","c","h">>, <<"P","r","o","t","o","t","y","p","i","n","g">>, <<"D","e","s","i","g","n"," ","T","h","i","n","k","i","n","g">> }
          [] r = "Cybersecurity Analyst" ->
               { <<"N","e","t","w","o","r","k"," ","S","e","c","u","r","i","t","y">>, <<"E","t","h","i","c","a","l"," ","H","a","c","k","i","n","g">>, <<"C","r","y","p","t","o","g","r","a","p","h","y">>,
                 <<"F","i","r","e","w","a","l","l","s">>, <<"I","n","c","i","d","e","n","t"," ","R","e","s","p","o","n","s","e">>, <<"P","e","n","e","t","r","a","t","i","o","n"," ","T","e","s","t","i","n","g">> } ]

\* predefined_skills.get(job_role, set())
catalog_get(role) ==
    IF role \in DOMAIN predefined_skills THEN predefined_skills[role] ELSE {}

\* extract_skills_nlp: the texts of the tokens spaCy tags NOUN or PROPN.  The
\* tokens are whitespace-free pieces of the text; which of them are tagged is
\* the tagger's choice, so the result is any set of words of the text.
extract_skills_nlp(text) == SUBSET set(split(text))

\* a wrong match_skills: the score is taken over the resume's tokens
match_skills_over_tokens(extracted, role) ==
    LET job_skills == catalog_get(role)
        matched == extracted \cap job_skills
        missing == job_skills \ matched
        match_percentage ==
            IF job_skills # {}
            THEN percentage(Cardinality(matched), Cardinality(extracted))
            ELSE zero
    IN  [matched |-> matched, missing |-> missing, score |-> match_percentage]

\* a wrong match_skills: skills are matched whatever their letter case
match_skills_any_case(extracted, role) ==
    LET job_skills == catalog_get(role)
        matched == {s \in job_skills : \E t \in extracted : lower(t) = lower(s)}
        missing == job_skills \ matched
        match_percentage ==
            IF job_skills # {}
            THEN percentage(Cardinality(matched), Cardinality(job_skills))
            ELSE zero
    IN  [matched |-> matched, missing |-> missing, score |-> match_percentage]

\* match_skills, from the tagger's result (line 38) on
match_skills(extracted, role) ==
    LET job_skills == catalog_get(role)
        matched == extracted \cap job_skills
        missing == job_skills \ matched
        match_percentage ==
            IF job_skills # {}
            THEN percentage(Cardinality(matched), Cardinality(job_skills))
            ELSE zero
    IN  [matched |-> matched, missing |-> missing, score |-> match_percentage]

\* a wrong job_match_percentage: the resume is not lower-cased
job_match_case_sensitive(text, description) ==
    LET resume_words == set(split(text))
        job_words == set(split(lower(description)))
        match_count == Cardinality(resume_words \cap job_words)
    IN  IF job_words # {} THEN percentage(match_count, Cardinality(job_words)) ELSE zero

\* a wrong job_match_percentage: every resume word counts as a match
job_match_no_intersection(text, description) ==
    LET resume_words == set(split(lower(text)))
        job_words == set(split(lower(description)))
        match_count == Cardinality(resume_words)
    IN  IF job_words # {} THEN percentage(match_count, Cardinality(job_words)) ELSE zero

job_match_percentage(text, description) ==
    LET resume_words == set(split(lower(text)))
        job_words == set(split(lower(description)))
        match_count == Cardinality(resume_words \cap job_words)
    IN  IF job_words # {} THEN percentage(match_count, Cardinality(job_words)) ELSE zero

\* the sections dict of check_resume_format, in insertion order
sections ==
    << [name |-> "Education",
        keywords |-> << <<"e","d","u","c","a","t","i","o","n">>, <<"d","e","g","r","e","e">>, <<"b","a","c","h","e","l","o","r">>, <<"m","a","s","t","e","r">>,
                        <<"u","n","i","v","e","r","s","i","t","y">> >>],
       [name |-> "Experience",
        keywords |-> << <<"e","x","p","e","r","i","e","n","c","e">>, <<"i","n","t","e","r","n","s","h","i","p">>, <<"c","o","m","p","a","n","y">>, <<"w","o","r","k">> >>],
       [name |-> "Skills",
        keywords |-> << <<"s","k","i","l","l","s">>, <<"t","e","c","h","n","o","l","o","g","i","e","s">>, <<"e","x","p","e","r","t","i","s","e">> >>],
       [name |-> "Certifications",
        keywords |-> << <<"c","e","r","t","i","f","i","c","a","t","i","o","n">>, <<"c","o","u","r","s","e">>, <<"t","r","a","i","n","i","n","g">> >>],
       [name |-> "Projects",
        keywords |-> << <<"p","r","o","j","e","c","t","s">>, <<"p","o","r","t","f","o","l","i","o">>, <<"g","i","t","h","u","b">> >>] >>

\* a wrong check_resume_format: the text is not lower-cased
check_resume_format_case_sensitive(text) ==
    LET any_keyword(section) ==
            \E k \in DOMAIN section.keywords : contains(text, section.keywords[k])
        lacks(section) == ~any_keyword(section)
        kept == SelectSeq(sections, lacks)
    IN  [i \in 1..Len(kept) |-> kept[i].name]

check_resume_format(text) ==
    LET any_keyword(section) ==
            \E k \in DOMAIN section.keywords : contains(lower(text), section.keywords[k])
        lacks(section) == ~any_keyword(section)
        kept == SelectSeq(sections, lacks)
    IN  [i \in 1..Len(kept) |-> kept[i].name]

\* generate_pdf: the report, by what each of its lines prints (an empty set or
\* list is printed as "None")
generate_pdf(role, skill_score, job_score, matched, missing, missing_secs) ==
    [ role |-> role,
      skill_match |-> format_2f(skill_score),
      job_match |-> format_2f(job_score),
      matched |-> matched,
      missing |-> missing,
      sections |-> missing_secs ]

-----------------------------------------------------------------------------
(* Uploaded files and the text extractor *)

\* str.rfind(c), 1-based, 0 when c does not occur
rfind(s, c) ==
    IF \E i \in DOMAIN s : s[i] = c
    THEN CHOOSE i \in DOMAIN s : s[i] = c /\ \A j \in DOMAIN s : s[j] = c => j <= i
    ELSE 0

\* os.path.splitext(name)[-1]: from the last dot of the base name on, unless
\* only dots precede it
splitext_ext(name) ==
    LET sepIndex == rfind(name, "/")
        dotIndex == rfind(name, ".")
    IN  IF dotIndex > sepIndex
           /\ \E k \in (sepIndex + 1)..(dotIndex - 1) : name[k] # "."
        THEN SubSeq(name, dotIndex, Len(name))
        ELSE <<>>

\* An uploaded file: its name and what the parsers find in it.  fmt is the
\* format of the bytes ("pdf", "docx", or "other" for any other bytes); parts
\* are page.extract_text() of each page (<<>> for a page that yields None or
\* "") or para.text of each paragraph.  A parser given bytes of another format
\* raises.
File(name, fmt, parts) == [name |-> name, fmt |-> fmt, parts |-> parts]

non_empty(s) == s # <<>>

\* a wrong extract_text: every file that is no .pdf goes to the .docx parser
extract_text_else_docx(uploaded_file) ==
    LET file_extension == lower(splitext_ext(uploaded_file.name))
    IN  IF file_extension = <<".","p","d","f">>
        THEN IF uploaded_file.fmt # "pdf"
             THEN [raised |-> TRUE, value |-> None]
             ELSE [raised |-> FALSE,
                   value |-> join(<<"\n">>, SelectSeq(uploaded_file.parts, non_empty))]
        ELSE IF uploaded_file.fmt # "docx"
             THEN [raised |-> TRUE, value |-> None]
             ELSE [raised |-> FALSE, value |-> join(<<"\n">>, uploaded_file.parts)]

\* extract_text: [raised |-> an exception left the function, value |-> its result]
extract_text(uploaded_file) ==
    LET file_extension == lower(splitext_ext(uploaded_file.name))
    IN  IF file_extension = <<".","p","d","f">>
        THEN IF uploaded_file.fmt # "pdf"
             THEN [raised |-> TRUE, value |-> None]
             ELSE [raised |-> FALSE,
                   value |-> join(<<"\n">>, SelectSeq(uploaded_file.parts, non_empty))]
        ELSE IF file_extension = <<".","d","o","c","x">>
        THEN IF uploaded_file.fmt # "docx"
             THEN [raised |-> TRUE, value |-> None]
             ELSE [raised |-> FALSE, value |-> join(<<"\n">>, uploaded_file.parts)]
        ELSE [raised |-> FALSE, value |-> None]

\* a wrong report name: the extension of the upload is dropped
report_name_of_stem(name) ==
    SubSeq(name, 1, Len(name) - Len(splitext_ext(name))) \o <<"_","a","n","a","l","y","s","i","s",".","p","d","f">>

\* file_name of the download button
report_name(name) == name \o <<"_","a","n","a","l","y","s","i","s",".","p","d","f">>

-----------------------------------------------------------------------------
(* Inputs of the interaction shell *)

FilePool ==
    { File(<<"a",".","p","d","f">>, "pdf", << <<"P","y","t","h","o","n"," ","S","Q","L">>, <<>>, <<"w","o","r","k">> >>),
      File(<<"B",".","P","D","F">>, "pdf", << <<>>, <<>> >>),
      File(<<"c",".","d","o","c","x">>, "docx", << <<"F","i","g","m","a">>, <<"G","i","t","H","u","b">> >>),
      File(<<"d",".","D","o","c","X">>, "docx", << <<>>, <<>> >>),
      File(<<"e",".","d","o","c","x">>, "docx", << <<>> >>),
      File(<<"f",".","t","x","t">>, "pdf", << <<"P","y","t","h","o","n">> >>),
      File(<<"g">>, "docx", << <<"S","Q","L">> >>),
      File(<<"h",".","p","d","f">>, "other", <<>>) }

DescriptionPool == { <<>>, <<" ">>, <<"p","y","t","h","o","n"," ","s","q","l">>, <<"F","i","g","m","a"," ","a","n","d"," ","G","i","t","H","u","b">> }

\* lists of distinct files, at most MaxFiles of them
FileLists ==
    UNION { { fs \in [1..n -> FilePool] : \A i, j \in 1..n : fs[i] = fs[j] => i = j }
            : n \in 0..MaxFiles }

-----------------------------------------------------------------------------
(* The interaction shell: one run of the script, lines 99-134 *)

NoResult ==
    /\ resume_text = <<>>
    /\ extracted_skills = {}
    /\ matched_skills = {}
    /\ missing_skills = {}
    /\ skill_match_score = zero
    /\ job_match_score = zero
    /\ missing_sections = <<>>

Init ==
    /\ uploaded_files \in FileLists
    /\ job_description \in DescriptionPool
    /\ job_role \in set(Roles)
    /\ pc = "start"
    /\ idx = 0
    /\ NoResult
    /\ screen = <<>>
    /\ downloads = <<>>

\* line 103: if uploaded_files and job_description
Start ==
    /\ pc = "start"
    /\ IF uploaded_files # <<>> /\ job_description # <<>>
       THEN pc' = "extract" /\ idx' = 1
       ELSE pc' = "done" /\ idx' = idx
    /\ UNCHANGED <<uploaded_files, job_description, job_role, resume_text,
                   extracted_skills, matched_skills, missing_skills,
                   skill_match_score, job_match_score, missing_sections, screen,
                   downloads>>

\* the for statement takes the next file, or ends the loop and the script
next_pc(i) == IF i + 1 > Len(uploaded_files) THEN "done" ELSE "extract"

\* lines 105-106: an exception of the parser ends the script run
Extract ==
    /\ pc = "extract"
    /\ LET r == extract_text(uploaded_files[idx])
       IN  IF r.raised
           THEN pc' = "crashed" /\ UNCHANGED <<idx, resume_text>>
           ELSE /\ resume_text' = r.value
                /\ IF truthy(r.value)
                   THEN pc' = "analyse" /\ idx' = idx
                   ELSE pc' = next_pc(idx) /\ idx' = idx + 1
    /\ UNCHANGED <<uploaded_files, job_description, job_role, extracted_skills,
                   matched_skills, missing_skills, skill_match_score,
                   job_match_score, missing_sections, screen, downloads>>

\* lines 107-109
Analyse ==
    /\ pc = "analyse"
    /\ \E tokens \in extract_skills_nlp(resume_text) :
        LET m == match_skills(tokens, job_role)
        IN  /\ matched_skills' = m.matched
            /\ missing_skills' = m.missing
            /\ skill_match_score' = m.score
    /\ job_match_score' = job_match_percentage(resume_text, job_description)
    /\ missing_sections' = check_resume_format(resume_text)
    /\ pc' = "display"
    /\ UNCHANGED <<uploaded_files, job_description, job_role, idx, resume_text,
                   extracted_skills, screen, downloads>>

\* lines 111-126
Display ==
    /\ pc = "display"
    /\ screen' = Append(screen,
          [ file |-> idx,
            subheader |-> uploaded_files[idx].name,
            skill_metric |-> format_2f(skill_match_score),
            job_metric |-> format_2f(job_match_score),
            matched |-> matched_skills,
            missing |-> missing_skills,
            sections |-> missing_sections,
            well_structured |-> (missing_sections = <<>>) ])
    /\ pc' = "report"
    /\ UNCHANGED <<uploaded_files, job_description, job_role, idx, resume_text,
                   extracted_skills, matched_skills, missing_skills,
                   skill_match_score, job_match_score, missing_sections,
                   downloads>>

\* lines 128-134
OfferReport ==
    /\ pc = "report"
    /\ downloads' = Append(downloads,
          [ file |-> idx,
            label |-> uploaded_files[idx].name,
            data |-> generate_pdf(job_role, skill_match_score, job_match_score,
                                  matched_skills, missing_skills, missing_sections),
            file_name |-> report_name(uploaded_files[idx].name),
            mime |-> "application/pdf" ])
    /\ pc' = next_pc(idx)
    /\ idx' = idx + 1
    /\ UNCHANGED <<uploaded_files, job_description, job_role, resume_text,
                   extracted_skills, matched_skills, missing_skills,
                   skill_match_score, job_match_score, missing_sections, screen>>

Next == Start \/ Extract \/ Analyse \/ Display \/ OfferReport

Spec == Init /\ [][Next]_vars

-----------------------------------------------------------------------------
(* match_skills on its own: any role name, any token set of the tagger *)

\* tokens of no catalog: another letter case, another word, a part of a skill
ForeignTokens == << <<"p","y","t","h","o","n">>, <<"E","x","c","e","l">>, <<"M","a","c","h","i","n","e">>, <<"s","q","l">> >>

Foreign == { ForeignTokens[i] : i \in 1..MaxForeign }

RoleInputs == set(Roles) \cup {"Astronaut"}

NoShell ==
    /\ uploaded_files = <<>>
    /\ idx = 0
    /\ screen = <<>>
    /\ downloads = <<>>

InitMatch ==
    /\ job_role \in RoleInputs
    /\ extracted_skills \in
         { a \cup b : a \in SUBSET catalog_get(job_role), b \in SUBSET Foreign }
    /\ pc = "call"
    /\ resume_text = <<>>
    /\ job_description = <<>>
    /\ matched_skills = {}
    /\ missing_skills = {}
    /\ skill_match_score = zero
    /\ job_match_score = zero
    /\ missing_sections = <<>>
    /\ NoShell

CallMatchSkills ==
    /\ pc = "call"
    /\ LET m == match_skills(extracted_skills, job_role)
       IN  /\ matched_skills' = m.matched
           /\ missing_skills' = m.missing
           /\ skill_match_score' = m.score
    /\ pc' = "returned"
    /\ UNCHANGED <<uploaded_files, job_description, job_role, idx, resume_text,
                   extracted_skills, job_match_score, missing_sections, screen,
                   downloads>>

SpecMatch == InitMatch /\ [][CallMatchSkills]_vars

-----------------------------------------------------------------------------
(* job_match_percentage on its own: every pair of short texts *)

Alphabet == {"A", "a", "b", " ", "\n"}

Strings(n) == UNION { [1..k -> Alphabet] : k \in 0..n }

InitJob ==
    /\ resume_text \in Strings(MaxResumeLen)
    /\ job_description \in Strings(MaxJobLen)
    /\ job_role = Roles[1]
    /\ pc = "call"
    /\ extracted_skills = {}
    /\ matched_skills = {}
    /\ missing_skills = {}
    /\ skill_match_score = zero
    /\ job_match_score = zero
    /\ missing_sections = <<>>
    /\ NoShell

CallJobMatch ==
    /\ pc = "call"
    /\ job_match_score' = job_match_percentage(resume_text, job_description)
    /\ pc' = "returned"
    /\ UNCHANGED <<uploaded_files, job_description, job_role, idx, resume_text,
                   extracted_skills, matched_skills, missing_skills,
                   skill_match_score, missing_sections, screen, downloads>>

SpecJob == InitJob /\ [][CallJobMatch]_vars

-----------------------------------------------------------------------------
(* check_resume_format on its own: texts put together from pieces *)

FormatPieces ==
    { <<"E","d","u","c","a","t","i","o","n">>, <<"D","E","G","R","E","E">>, <<"n","e","t">>, <<"w","o","r","k">>, <<"S","k","i","l","l","s">>, <<"T","r","a","i","n","i","n","g">>,
      <<"G","i","t","H","u","b">>, <<"p","o","r","t">>, <<"f","o","l","i","o">>, <<" ">>, <<"\n">>, <<"h","e","l","l","o">> }

RECURSIVE concat(_)
concat(pieces) == IF pieces = <<>> THEN <<>> ELSE pieces[1] \o concat(Tail(pieces))

FormatTexts == { concat(ps) : ps \in UNION { [1..k -> FormatPieces] : k \in 0..MaxPieces } }

InitFormat ==
    /\ resume_text \in FormatTexts
    /\ job_description = <<>>
    /\ job_role = Roles[1]
    /\ pc = "call"
    /\ extracted_skills = {}
    /\ matched_skills = {}
    /\ missing_skills = {}
    /\ skill_match_score = zero
    /\ job_match_score = zero
    /\ missing_sections = <<>>
    /\ NoShell

CallCheckFormat ==
    /\ pc = "call"
    /\ missing_sections' = check_resume_format(resume_text)
    /\ pc' = "returned"
    /\ UNCHANGED <<uploaded_files, job_description, job_role, idx, resume_text,
                   extracted_skills, matched_skills, missing_skills,
                   skill_match_score, job_match_score, screen, downloads>>

SpecFormat == InitFormat /\ [][CallCheckFormat]_vars

-----------------------------------------------------------------------------
(* Properties of the analysis functions *)

\* a percentage p equals a/b * 100
is_ratio(p, a, b) == p.den > 0 /\ p.num * b = 100 * a * p.den

is_percent(p, n) == p.den > 0 /\ p.num = n * p.den

\* the catalog of a role as the source lists it, empty for any other name
CatalogOf(role) == IF role \in set(Roles) THEN predefined_skills[role] ELSE {}

\* C2: match_skills returns the score |T \cap S| / |S| * 100 for the token set T
\* and the catalog S of the role, and 0 when S is empty or the role is not in
\* the catalog, without dividing by zero; so the score is 100 with nothing
\* missing when T equals a (non-empty) S, and 0 with nothing matched when T and
\* S share no token.
C2_SkillScore ==
    pc = "returned" =>
        LET T == extracted_skills
            S == CatalogOf(job_role)
            common == {s \in S : s \in T}
        IN  /\ skill_match_score.den > 0
            /\ S = {} => is_percent(skill_match_score, 0)
            /\ S # {} => is_ratio(skill_match_score, Cardinality(common), Cardinality(S))
            /\ (S # {} /\ T = S) =>
                   is_percent(skill_match_score, 100) /\ missing_skills = {}
            /\ (\A t \in T : t \notin S) =>
                   is_percent(skill_match_score, 0) /\ matched_skills = {}

\* match_skills has returned 100 for a token set equal to a catalog
C2_Witness ==
    /\ pc = "returned"
    /\ job_role \in set(Roles)
    /\ extracted_skills = predefined_skills[job_role]
    /\ is_percent(skill_match_score, 100)
    /\ missing_skills = {}

\* C3: the matched and missing sets of match_skills partition the catalog of
\* the role: matched is the case-sensitive intersection of the tokens with the
\* catalog, missing is the catalog minus matched, they are disjoint, their
\* union is the catalog, and no token outside the catalog is in either.
C3_Partition ==
    pc = "returned" =>
        LET T == extracted_skills
            S == CatalogOf(job_role)
        IN  /\ \A s \in S : (s \in matched_skills) <=> (s \in T)
            /\ \A s \in S : (s \in missing_skills) <=> (s \notin matched_skills)
            /\ matched_skills \cap missing_skills = {}
            /\ matched_skills \cup missing_skills = S
            /\ \A t \in T : t \notin S => t \notin matched_skills \cup missing_skills

\* match_skills has returned with "python" among the tokens and "Python" missing
C3_Witness ==
    /\ pc = "returned"
    /\ <<"p","y","t","h","o","n">> \in extracted_skills
    /\ <<"P","y","t","h","o","n">> \in missing_skills
    /\ matched_skills # {}
    /\ \E t \in extracted_skills : t \notin CatalogOf(job_role)

\* the words of a text: its maximal runs of characters that are no whitespace
WordsOf(text) ==
    { SubSeq(text, i, j) : <<i, j>> \in
        { <<a, b>> \in (DOMAIN text) \X (DOMAIN text) :
            /\ a <= b
            /\ \A k \in a..b : text[k] \notin {" ", "\n", "\t"}
            /\ (a = 1 \/ text[a - 1] \in {" ", "\n", "\t"})
            /\ (b = Len(text) \/ text[b + 1] \in {" ", "\n", "\t"}) } }

\* two characters are the same letter, whatever their case
SameLetter(c, d) ==
    \/ c = d
    \/ \E n \in 1..26 : {c, d} = {UpperCase[n], LowerCase[n]}

SameWord(v, w) == Len(v) = Len(w) /\ \A k \in DOMAIN v : SameLetter(v[k], w[k])

LowerWords(text) == { lower(w) : w \in WordsOf(text) }

\* C4: job_match_percentage returns |R \cap J| / |J| * 100 for the sets R and J
\* of lower-cased whitespace-separated words of the resume and of the job
\* description, 0 when the job description has no words, and 100 whenever
\* every word of a job description that has words occurs in the resume up to
\* letter case.
C4_JobScore ==
    pc = "returned" =>
        LET R == LowerWords(resume_text)
            J == LowerWords(job_description)
        IN  /\ job_match_score.den > 0
            /\ J = {} => is_percent(job_match_score, 0)
            /\ J # {} => is_ratio(job_match_score, Cardinality(R \cap J), Cardinality(J))
            /\ ( /\ WordsOf(job_description) # {}
                 /\ \A w \in WordsOf(job_description) :
                        \E v \in WordsOf(resume_text) : SameWord(v, w) )
               => is_percent(job_match_score, 100)

\* job_match_percentage has returned 100 for a job description whose word is
\* in the resume in another letter case only
C4_Witness ==
    /\ pc = "returned"
    /\ WordsOf(job_description) # {}
    /\ WordsOf(job_description) \cap WordsOf(resume_text) = {}
    /\ is_percent(job_match_score, 100)

SectionOrder == <<"Education", "Experience", "Skills", "Certifications", "Projects">>

\* keyword occurs in text at some place, in any letter case
Occurs(keyword, text) ==
    \E i \in 0..(Len(text) - Len(keyword)) :
        \A j \in DOMAIN keyword : SameLetter(text[i + j], keyword[j])

HasSection(k, text) ==
    \E n \in DOMAIN sections[k].keywords : Occurs(sections[k].keywords[n], text)

\* C5: check_resume_format returns exactly the sections none of whose keywords
\* is a substring of the lower-cased text, in the order Education, Experience,
\* Skills, Certifications, Projects and without duplicates: all five for a text
\* with no keyword, and never a section one of whose keywords occurs in the
\* text, in any letter case, also inside a longer word.
C5_MissingSections ==
    pc = "returned" =>
        /\ \A k \in 1..5 : sections[k].name = SectionOrder[k]
        /\ \A k \in 1..5 :
              (\E i \in DOMAIN missing_sections : missing_sections[i] = SectionOrder[k])
                  <=> ~HasSection(k, resume_text)
        /\ \A i, j \in DOMAIN missing_sections :
              i < j => \E a, b \in 1..5 : /\ a < b
                                          /\ missing_sections[i] = SectionOrder[a]
                                          /\ missing_sections[j] = SectionOrder[b]
        /\ (\A k \in 1..5 : ~HasSection(k, resume_text)) => missing_sections = SectionOrder

\* check_resume_format has returned for a text with "DEGREE" and "network" in it
C5_Witness ==
    /\ pc = "returned"
    /\ Occurs(<<"n","e","t","w","o","r","k">>, resume_text)
    /\ \E i \in 1..(Len(resume_text) - 5) : SubSeq(resume_text, i, i + 5) = <<"D","E","G","R","E","E">>
    /\ missing_sections = <<"Skills", "Certifications", "Projects">>

\* check_resume_format has returned all five sections
C5_AllMissing ==
    /\ pc = "returned"
    /\ resume_text # <<>>
    /\ missing_sections = SectionOrder

-----------------------------------------------------------------------------
(* Properties of the interaction shell *)

\* the script run has ended without an exception
Completed == pc = "done"

\* the script run has ended, by the end of the script or by an exception
Ended == pc \in {"done", "crashed"}

\* the text the extractor gets out of the i-th upload is non-empty
HasText(i) ==
    /\ ~extract_text(uploaded_files[i]).raised
    /\ truthy(extract_text(uploaded_files[i]).value)

AnalysesOf(i) == {k \in DOMAIN screen : screen[k].file = i}

ReportsOf(i) == {k \in DOMAIN downloads : downloads[k].file = i}

\* the i-th upload got its analysis displayed and one report offered
Served(i) == Cardinality(AnalysesOf(i)) = 1 /\ Cardinality(ReportsOf(i)) = 1

\* C1: in a run of the shell, whatever the files, the role and the job
\* description (the empty one too), each uploaded file with non-empty text
\* gets its analysis displayed and exactly one report offered; an empty job
\* description only makes the job match 0.
C1_EveryTextAnalysed ==
    Completed =>
        \A i \in DOMAIN uploaded_files :
            HasText(i) =>
                /\ Served(i)
                /\ WordsOf(job_description) = {} =>
                       \A k \in AnalysesOf(i) : screen[k].job_metric = 0

in_range(p) == p.den > 0 /\ 0 <= p.num /\ p.num <= 100 * p.den

\* C6: in every analysis result, the skill match percentage and the job match
\* percentage lie in [0, 100].
C6_PercentagesInRange ==
    /\ pc \in {"display", "report"} =>
           in_range(skill_match_score) /\ in_range(job_match_score)
    /\ \A k \in DOMAIN screen :
           /\ 0 <= screen[k].skill_metric /\ screen[k].skill_metric <= 10000
           /\ 0 <= screen[k].job_metric /\ screen[k].job_metric <= 10000
    /\ \A k \in DOMAIN downloads :
           /\ 0 <= downloads[k].data.skill_match /\ downloads[k].data.skill_match <= 10000
           /\ 0 <= downloads[k].data.job_match /\ downloads[k].data.job_match <= 10000

\* an analysis is displayed with both percentages strictly inside the range,
\* after one with a skill match of 0
C6_Witness ==
    /\ \E k \in DOMAIN screen :
           /\ 0 < screen[k].skill_metric /\ screen[k].skill_metric < 10000
           /\ 0 < screen[k].job_metric /\ screen[k].job_metric < 10000
    /\ \E k \in DOMAIN screen : screen[k].skill_metric = 0

\* C7: the uploads are processed one at a time in upload order: analyses and
\* reports appear in upload order, each file is analysed at most once, a file
\* is done (extract, match, score, format check, report) before the next one
\* is extracted, and the report of a file is named <its name>_analysis.pdf.
C7_InUploadOrder ==
    /\ \A j, k \in DOMAIN screen : j < k => screen[j].file < screen[k].file
    /\ \A j, k \in DOMAIN downloads : j < k => downloads[j].file < downloads[k].file
    /\ \A k \in DOMAIN screen :
           /\ screen[k].file \in DOMAIN uploaded_files
           /\ screen[k].subheader = uploaded_files[screen[k].file].name
    /\ \A k \in DOMAIN downloads :
           /\ k \in DOMAIN screen
           /\ downloads[k].file = screen[k].file
           /\ downloads[k].label = uploaded_files[downloads[k].file].name
           /\ downloads[k].file_name =
                  uploaded_files[downloads[k].file].name \o <<"_","a","n","a","l","y","s","i","s",".","p","d","f">>
           /\ downloads[k].mime = "application/pdf"
    /\ pc \in {"extract", "analyse", "display"} =>
           /\ idx \in DOMAIN uploaded_files
           /\ Len(downloads) = Len(screen)
           /\ \A k \in DOMAIN screen : screen[k].file < idx
    /\ pc = "report" =>
           /\ Len(screen) = Len(downloads) + 1
           /\ screen[Len(screen)].file = idx
    /\ Completed => Len(downloads) = Len(screen)

\* two uploads have been analysed, and their reports offered, in upload order
C7_Witness ==
    /\ Completed
    /\ Len(downloads) = 2
    /\ downloads[1].file < downloads[2].file
    /\ downloads[1].file_name # downloads[2].file_name

\* the name ends in the extension ext, in any letter case
HasExtension(name, ext) ==
    /\ Len(name) > Len(ext)
    /\ \A j \in DOMAIN ext : SameLetter(name[Len(name) - Len(ext) + j], ext[j])
    /\ \E k \in 1..(Len(name) - Len(ext)) : name[k] \notin {".", "/"}

Unsupported(name) == ~HasExtension(name, <<".","p","d","f">>) /\ ~HasExtension(name, <<".","d","o","c","x">>)

\* C8: an error while one uploaded file is processed (a parser exception on a
\* malformed document) is fatal to the analysis of that file only: the analyses
\* of earlier files stay, and every later file with non-empty text is still
\* analysed and offered a report.
C8_OtherFilesStillAnalysed ==
    /\ (Ended /\ job_description # <<>>) =>
           \A i \in DOMAIN uploaded_files : HasText(i) => Served(i)
    /\ pc = "crashed" => Len(downloads) = Len(screen)

\* C9: extract_text on a file whose extension is, in any letter case, neither
\* .pdf nor .docx calls no parser and yields no text, and the shell skips the
\* file: no analysis, no report, no error, and the loop goes on to the
\* remaining files.
C9_UnsupportedSkipped ==
    /\ [](\A i \in DOMAIN uploaded_files :
             Unsupported(uploaded_files[i].name) =>
                 /\ extract_text(uploaded_files[i]) = [raised |-> FALSE, value |-> None]
                 /\ AnalysesOf(i) = {}
                 /\ ReportsOf(i) = {}
                 /\ (pc = "crashed" => idx # i))
    /\ [][(pc = "extract" /\ Unsupported(uploaded_files[idx].name)) =>
              /\ idx' = idx + 1
              /\ pc' = IF idx = Len(uploaded_files) THEN "done" ELSE "extract"
              /\ screen' = screen
              /\ downloads' = downloads]_vars

\* a run has ended with an unsupported first upload skipped and the second
\* upload analysed
C9_Witness ==
    /\ Completed
    /\ Len(uploaded_files) = 2
    /\ Unsupported(uploaded_files[1].name)
    /\ resume_text # None
    /\ Len(screen) = 1
    /\ screen[1].file = 2
    /\ Len(downloads) = 1

\* a document of a supported format none of whose pages or paragraphs has text
Blank(file) ==
    /\ ~Unsupported(file.name)
    /\ file.fmt \in {"pdf", "docx"}
    /\ \A n \in DOMAIN file.parts : file.parts[n] = <<>>

\* C10: a supported document that yields no extractable text is skipped by the
\* shell, a .pdf whose every page yields no text and a .docx whose every
\* paragraph is empty alike, whatever the number of pages or paragraphs: no
\* analysis and no report.
C10_BlankSkipped ==
    \A i \in DOMAIN uploaded_files :
        Blank(uploaded_files[i]) => AnalysesOf(i) = {} /\ ReportsOf(i) = {}

====
